---- MODULE Spec2Model ----
(***************************************************************************)
(* A model of the Node.js/Yarn backend of upm                              *)
(* (src/internal/backends/nodejs/nodejs.go): the dependency guesser        *)
(* (Guess), the selection of the latest version (Info), the manifest       *)
(* listing (ListSpecfile) and the lock-file listing (ListLockfile).        *)
(*                                                                         *)
(* Go strings are modelled as sequences of one-character strings, so that  *)
(* strings.Split, strings.Join, strings.HasPrefix and the regular          *)
(* expressions are computed character by character.                        *)
(***************************************************************************)
EXTENDS Integers, Sequences, FiniteSets

VARIABLES
    pc,           \* the position of the running operation
    pkgs,         \* the local `pkgs` of Guess (a set), ListSpecfile and ListLockfile (maps)
    match,        \* Guess: the captured raw specifier of the current match (<<>>: none)
    module,       \* Guess: the loop variable `module` at the end of the iteration
    skipped,      \* Guess: whether the iteration left through `continue`
    nmatch,       \* Guess: the number of matches ranged over so far
    candidates,   \* Guess: history, the value of pkgs when the match loop ended
    output,       \* Guess: the lines printed by `node -e nodejsBuiltinsCode`
    scanned,      \* Guess: the number of lines scanner.Scan() has returned
    Versions,     \* Info: the key set of npmInfo.Versions
    todo,         \* Info: the keys the range statement has not produced yet
    lastVersion,  \* Info: the local lastVersion (Nil: nil)
    reported,     \* Info: the Version fields returned by the calls made so far
    cfg,          \* ListSpecfile: the decoded packageJSON
    todoDeps,     \* ListSpecfile: keys of cfg.Dependencies not yet ranged over
    todoDev,      \* ListSpecfile: keys of cfg.DevDependencies not yet ranged over
    contents,     \* ListLockfile: the lines of yarn.lock
    pos           \* ListLockfile: the line at which the next regexp search starts

guessVars == <<match, module, skipped, nmatch, candidates, output, scanned>>
infoVars  == <<Versions, todo, lastVersion, reported>>
specVars  == <<cfg, todoDeps, todoDev>>
lockVars  == <<contents, pos>>
vars      == <<pc, pkgs, guessVars, infoVars, specVars, lockVars>>

\* Go's nil pointer.
Nil == [nil |-> TRUE]

(***************************************************************************)
(* Go's strings package, on sequences of characters.                       *)
(***************************************************************************)
Contains(s, c) == \E i \in 1..Len(s) : s[i] = c

HasPrefix(s, c) == Len(s) >= 1 /\ s[1] = c

Index(s, c) == CHOOSE i \in 1..Len(s) : s[i] = c /\ \A j \in 1..(i - 1) : s[j] # c

RECURSIVE Split(_, _)
Split(s, sep) ==
    IF ~Contains(s, sep) THEN <<s>>
    ELSE LET i == Index(s, sep)
         IN  <<SubSeq(s, 1, i - 1)>> \o Split(SubSeq(s, i + 1, Len(s)), sep)

RECURSIVE Join(_, _)
Join(parts, sep) ==
    IF Len(parts) = 0 THEN <<>>
    ELSE IF Len(parts) = 1 THEN parts[1]
    ELSE parts[1] \o <<sep>> \o Join(Tail(parts), sep)

(***************************************************************************)
(* Guess                                                                   *)
(***************************************************************************)
MaxLen      == 3
MaxMatches  == 1
MaxBuiltins == 1

\* The characters a captured specifier is built from: the four the
\* normalization looks at and two ordinary ones.
Chars == {".", "!", "/", "@", "a", "b"}

\* What the capture groups of the three patterns can hold: a non-empty text.
RawSpecifiers == UNION {[1..n -> Chars] : n \in 1..MaxLen}

\* Lines `node` may print for require("module").builtinModules.
BuiltinLines == {<<"a">>, <<"a", "/", "b">>, <<>>}

Outputs == UNION {[1..n -> BuiltinLines] : n \in 0..MaxBuiltins}

\* The loader step keeping the first part instead of the last.
StripLoaderFirst(m) == IF Contains(m, "!") THEN Split(m, "!")[1] ELSE m

\* Lines 257-260: keep what follows the last "!".
StripLoader(m) ==
    IF Contains(m, "!")
    THEN LET parts == Split(m, "!") IN parts[Len(parts)]
    ELSE m

\* The truncation without the scope test.
TruncateUnscoped(m) == IF Contains(m, "/") THEN Split(m, "/")[1] ELSE m

\* Lines 264-271: keep the package part of a path.
Truncate(m) ==
    IF Contains(m, "/")
    THEN LET parts == Split(m, "/")
         IN  IF HasPrefix(m, "@") THEN Join(SubSeq(parts, 1, 2), "/") ELSE parts[1]
    ELSE m

\* The loop body with the relative check made on the captured text.
NormalizeLocalFirst(raw) ==
    IF HasPrefix(raw, ".") THEN [skip |-> TRUE, module |-> raw]
    ELSE [skip |-> FALSE, module |-> Truncate(StripLoader(raw))]

\* The loop body with the relative check looking for "./".
NormalizeDotSlash(raw) ==
    LET m == StripLoader(raw)
    IN  IF Len(m) >= 2 /\ m[1] = "." /\ m[2] = "/" THEN [skip |-> TRUE, module |-> m]
        ELSE [skip |-> FALSE, module |-> Truncate(m)]

\* Lines 255-272, the body of the match loop: the final value of `module`
\* and whether the iteration ended in `continue`.
Normalize(raw) ==
    LET m == StripLoader(raw)
    IN  IF HasPrefix(m, ".") THEN [skip |-> TRUE, module |-> m]
        ELSE [skip |-> FALSE, module |-> Truncate(m)]

GuessInit ==
    /\ pc = "search"
    /\ pkgs = {}
    /\ match = <<>>
    /\ module = <<>>
    /\ skipped = FALSE
    /\ nmatch = 0
    /\ candidates = {}
    /\ output = <<>>
    /\ scanned = 0

\* One iteration of the loop over util.SearchRecursive's matches.
GuessMatch ==
    /\ pc = "search"
    /\ nmatch < MaxMatches
    /\ \E raw \in RawSpecifiers :
         LET n == Normalize(raw)
         IN  /\ match' = raw
             /\ module' = n.module
             /\ skipped' = n.skip
             /\ pkgs' = IF n.skip THEN pkgs ELSE pkgs \cup {n.module}
    /\ nmatch' = nmatch + 1
    /\ UNCHANGED <<pc, candidates, output, scanned>>

\* Lines 275-276: the match loop is over; run node and wrap its output.
GuessGetCmdOutput ==
    /\ pc = "search"
    /\ \E out \in Outputs : output' = out
    /\ candidates' = pkgs
    /\ match' = <<>>
    /\ module' = <<>>
    /\ skipped' = FALSE
    /\ scanned' = 0
    /\ pc' = "scan"
    /\ UNCHANGED <<pkgs, nmatch>>

\* A delete that removes nothing.
DeleteNothing(set, name) == set

\* delete(pkgs, name)
Delete(set, name) == set \ {name}

\* Lines 278-281: one scanner.Scan() and the delete.
GuessScan ==
    /\ pc = "scan"
    /\ scanned < Len(output)
    /\ scanned' = scanned + 1
    /\ module' = output[scanned + 1]
    /\ pkgs' = Delete(pkgs, output[scanned + 1])
    /\ UNCHANGED <<pc, match, skipped, nmatch, candidates, output>>

\* Line 287.
GuessReturn ==
    /\ pc = "scan"
    /\ scanned = Len(output)
    /\ pc' = "done"
    /\ UNCHANGED <<pkgs, guessVars>>

InfoIdle == Versions = {} /\ todo = {} /\ lastVersion = Nil /\ reported = <<>>
SpecIdle == cfg = <<>> /\ todoDeps = {} /\ todoDev = {}
LockIdle == contents = <<>> /\ pos = 0

InitGuess == GuessInit /\ InfoIdle /\ SpecIdle /\ LockIdle

NextGuess ==
    \/ GuessMatch /\ UNCHANGED <<infoVars, specVars, lockVars>>
    \/ GuessGetCmdOutput /\ UNCHANGED <<infoVars, specVars, lockVars>>
    \/ GuessScan /\ UNCHANGED <<infoVars, specVars, lockVars>>
    \/ GuessReturn /\ UNCHANGED <<infoVars, specVars, lockVars>>

SpecGuess == InitGuess /\ [][NextGuess]_vars

(***************************************************************************)
(* Info: the selection of the latest version (lines 141-161), with the     *)
(* parts of github.com/hashicorp/go-version it calls.                      *)
(***************************************************************************)
MaxVersions == 2
MaxCalls    == 2

Digits  == {"0", "1", "2"}
Letters == {"b", "v"}
\* [0-9A-Za-z\-~]
IdChars == Digits \cup Letters \cup {"-"}

\* The version labels a registry document may carry as keys of "versions":
\* an optional "v", a numeric part, and a pre-release or build suffix, well
\* formed or not.
LabelPrefixes == {<<>>, <<"v">>}
LabelNumbers ==
    {<<"1">>, <<"2">>, <<"0", "1">>, <<"1", ".">>, <<"1", ".", "0">>,
     <<"1", ".", "2", ".", "0">>, <<"1", ".", "0", ".", "0", ".", "0">>, <<"b">>}
LabelSuffixes == {<<>>, <<"-", "b">>, <<"+", "b">>, <<"+">>}
Labels ==
    {n \o x : n \in LabelNumbers, x \in LabelSuffixes}
      \cup {p \o n : p \in LabelPrefixes, n \in LabelNumbers}

\* The sets of at most n labels.
RECURSIVE SetsUpTo(_)
SetsUpTo(n) ==
    IF n = 0 THEN {{}}
    ELSE LET smaller == SetsUpTo(n - 1)
         IN  smaller \cup {S \cup {l} : S \in smaller, l \in Labels}

VersionSets == SetsUpTo(MaxVersions)

\* A text is a dot-separated list of non-empty groups of characters of cs.
DotGroups(s, cs) ==
    /\ Len(s) >= 1
    /\ \A i \in 1..Len(s) : s[i] \in cs \cup {"."}
    /\ s[1] # "." /\ s[Len(s)] # "."
    /\ \A i \in 1..(Len(s) - 1) : ~(s[i] = "." /\ s[i + 1] = ".")

\* The length of the longest prefix of s made of characters of cs.
RECURSIVE Span(_, _)
Span(s, cs) == IF Len(s) >= 1 /\ s[1] \in cs THEN 1 + Span(Tail(s), cs) ELSE 0

\* The length of the longest prefix of s made of characters not in cs.
RECURSIVE SpanNot(_, _)
SpanNot(s, cs) == IF Len(s) >= 1 /\ s[1] \notin cs THEN 1 + SpanNot(Tail(s), cs) ELSE 0

DigitValue(d) == CASE d = "0" -> 0 [] d = "1" -> 1 [] d = "2" -> 2

\* strconv.ParseInt(str, 10, 64) on a text of digits.
RECURSIVE ParseInt(_)
ParseInt(str) ==
    IF Len(str) = 0 THEN 0
    ELSE 10 * ParseInt(SubSeq(str, 1, Len(str) - 1)) + DigitValue(str[Len(str)])

DigitChar(n) == CASE n = 0 -> "0" [] n = 1 -> "1" [] n = 2 -> "2" [] n = 3 -> "3"
                  [] n = 4 -> "4" [] n = 5 -> "5" [] n = 6 -> "6" [] n = 7 -> "7"
                  [] n = 8 -> "8" [] n = 9 -> "9"

\* strconv.FormatInt(n, 10) for n >= 0.
RECURSIVE FormatInt(_)
FormatInt(n) == IF n < 10 THEN <<DigitChar(n)>> ELSE FormatInt(n \div 10) \o <<DigitChar(n % 10)>>

RECURSIVE ParseSegments(_)
ParseSegments(parts) ==
    IF Len(parts) = 0 THEN <<>> ELSE <<ParseInt(parts[1])>> \o ParseSegments(Tail(parts))

PadSegments(segs) ==
    IF Len(segs) >= 3 THEN segs ELSE segs \o [i \in 1..(3 - Len(segs)) |-> 0]

\* The pre-release group of VersionRegexpRaw on the text p between the
\* numeric part and the build part: "-" and a group that starts with a
\* digit, or an optional "-" and a group that starts with a letter or "-".
PrereleaseOf(p) ==
    IF Len(p) >= 2 /\ p[1] = "-" /\ p[2] \in IdChars THEN Tail(p) ELSE p

\* version.NewVersion(v): Nil for an error, else the parsed version.
NewVersion(v) ==
    LET body  == IF HasPrefix(v, "v") THEN Tail(v) ELSE v
        nlen  == Span(body, Digits \cup {"."})
        num   == SubSeq(body, 1, nlen)
        rest  == SubSeq(body, nlen + 1, Len(body))
        plen  == IF Contains(rest, "+") THEN Index(rest, "+") - 1 ELSE Len(rest)
        p     == SubSeq(rest, 1, plen)
        m     == SubSeq(rest, plen + 1, Len(rest))
    IN  IF /\ DotGroups(num, Digits)
           /\ (p = <<>> \/ DotGroups(p, IdChars))
           /\ (m = <<>> \/ DotGroups(Tail(m), IdChars))
        THEN [segments |-> PadSegments(ParseSegments(Split(num, "."))),
              pre      |-> PrereleaseOf(p),
              metadata |-> IF m = <<>> THEN <<>> ELSE Tail(m),
              original |-> v]
        ELSE Nil

\* (*Version).Prerelease()
Prerelease(v) == v.pre

RECURSIVE JoinSegments(_)
JoinSegments(segs) ==
    IF Len(segs) = 1 THEN FormatInt(segs[1])
    ELSE FormatInt(segs[1]) \o <<".">> \o JoinSegments(Tail(segs))

\* (*Version).String()
String(v) ==
    JoinSegments(v.segments)
      \o (IF v.pre # <<>> THEN <<"-">> \o v.pre ELSE <<>>)
      \o (IF v.metadata # <<>> THEN <<"+">> \o v.metadata ELSE <<>>)

AllZero(segs) == \A i \in 1..Len(segs) : segs[i] = 0

\* The segment loop of (*Version).Compare, from index i on.
RECURSIVE CompareSegments(_, _, _)
CompareSegments(self, other, i) ==
    LET hS == IF Len(self) < Len(other) THEN Len(other) ELSE Len(self)
    IN  IF i > hS THEN 0
        ELSE IF i > Len(self)
             THEN (IF ~AllZero(SubSeq(other, i, Len(other))) THEN -1 ELSE 0)
        ELSE IF i > Len(other)
             THEN (IF ~AllZero(SubSeq(self, i, Len(self))) THEN 1 ELSE 0)
        ELSE IF self[i] = other[i] THEN CompareSegments(self, other, i + 1)
        ELSE IF self[i] < other[i] THEN -1
        ELSE 1

\* (*Version).Compare for two versions without a pre-release, the only ones
\* Info compares.
Compare(v, other) ==
    IF String(v) = String(other) THEN 0
    ELSE IF v.segments = other.segments THEN 0
    ELSE CompareSegments(v.segments, other.segments, 1)

\* (*Version).GreaterThan
GreaterThan(v, other) == Compare(v, other) > 0

InfoInit ==
    /\ pc = "range"
    /\ pkgs = {}
    /\ Versions \in VersionSets
    /\ todo = Versions
    /\ lastVersion = Nil
    /\ reported = <<>>

\* The test of lines 145-152 without the pre-release check.
EligibleNoPrereleaseCheck(versionStr) == NewVersion(versionStr) # Nil

\* The label is parsed and kept, not skipped through `continue` (lines 145-152).
Eligible(versionStr) ==
    /\ NewVersion(versionStr) # Nil
    /\ Prerelease(NewVersion(versionStr)) = <<>>

\* Lines 144-157: one iteration of the range over npmInfo.Versions, which
\* produces the keys in an order Go leaves unspecified.
InfoRange ==
    /\ pc = "range"
    /\ \E versionStr \in todo :
         /\ todo' = todo \ {versionStr}
         /\ lastVersion' =
              IF ~Eligible(versionStr) THEN lastVersion
              ELSE IF lastVersion = Nil \/ GreaterThan(NewVersion(versionStr), lastVersion)
                   THEN NewVersion(versionStr)
                   ELSE lastVersion
    /\ UNCHANGED <<pc, pkgs, Versions, reported>>

\* Lines 158-166: the Version field of the returned PkgInfo.
InfoReturn ==
    /\ pc = "range"
    /\ todo = {}
    /\ reported' = Append(reported, IF lastVersion = Nil THEN <<>> ELSE String(lastVersion))
    /\ pc' = "done"
    /\ UNCHANGED <<pkgs, Versions, todo, lastVersion>>

\* Info run again on the same registry document (lines 141-143).
InfoCall ==
    /\ pc = "done"
    /\ Len(reported) < MaxCalls
    /\ todo' = Versions
    /\ lastVersion' = Nil
    /\ pc' = "range"
    /\ UNCHANGED <<pkgs, Versions, reported>>

GuessIdle ==
    /\ match = <<>> /\ module = <<>> /\ skipped = FALSE /\ nmatch = 0
    /\ candidates = {} /\ output = <<>> /\ scanned = 0

InitInfo == InfoInit /\ GuessIdle /\ SpecIdle /\ LockIdle

NextInfo ==
    \/ InfoRange /\ UNCHANGED <<guessVars, specVars, lockVars>>
    \/ InfoReturn /\ UNCHANGED <<guessVars, specVars, lockVars>>
    \/ InfoCall /\ UNCHANGED <<guessVars, specVars, lockVars>>

SpecInfo == InitInfo /\ [][NextInfo]_vars

(***************************************************************************)
(* ListSpecfile (lines 198-215)                                            *)
(***************************************************************************)
PkgNames == {"a", "b", "c"}
PkgSpecs == {"^1.0.0", "^2.0.0"}

\* The values a map[string]string field of packageJSON can decode to.
DependencyMaps == UNION {[S -> PkgSpecs] : S \in SUBSET PkgNames}

\* m[k] = v on a Go map that leaves an existing entry alone.
MapSetIfAbsent(m, k, v) ==
    [x \in DOMAIN m \cup {k} |-> IF x \in DOMAIN m THEN m[x] ELSE v]

\* m[k] = v on a Go map.
MapSet(m, k, v) == [x \in DOMAIN m \cup {k} |-> IF x = k THEN v ELSE m[x]]

EmptyMap == [x \in {} |-> x]

SpecfileInit ==
    /\ pc = "deps"
    /\ pkgs = EmptyMap
    /\ \E d \in DependencyMaps, v \in DependencyMaps :
         cfg = [Dependencies |-> d, DevDependencies |-> v]
    /\ todoDeps = DOMAIN cfg.Dependencies
    /\ todoDev = DOMAIN cfg.DevDependencies

\* Lines 208-210: one iteration of the range over cfg.Dependencies.
SpecfileRangeDeps ==
    /\ pc = "deps"
    /\ \E nameStr \in todoDeps :
         /\ pkgs' = MapSet(pkgs, nameStr, cfg.Dependencies[nameStr])
         /\ todoDeps' = todoDeps \ {nameStr}
    /\ UNCHANGED <<pc, cfg, todoDev>>

\* Lines 211-213: one iteration of the range over cfg.DevDependencies.
SpecfileRangeDev ==
    /\ pc = "deps"
    /\ todoDeps = {}
    /\ \E nameStr \in todoDev :
         /\ pkgs' = MapSet(pkgs, nameStr, cfg.DevDependencies[nameStr])
         /\ todoDev' = todoDev \ {nameStr}
    /\ UNCHANGED <<pc, cfg, todoDeps>>

\* Line 214.
SpecfileReturn ==
    /\ pc = "deps"
    /\ todoDeps = {}
    /\ todoDev = {}
    /\ pc' = "done"
    /\ UNCHANGED <<pkgs, specVars>>

InitSpecfile == SpecfileInit /\ GuessIdle /\ InfoIdle /\ LockIdle

NextSpecfile ==
    \/ SpecfileRangeDeps /\ UNCHANGED <<guessVars, infoVars, lockVars>>
    \/ SpecfileRangeDev /\ UNCHANGED <<guessVars, infoVars, lockVars>>
    \/ SpecfileReturn /\ UNCHANGED <<guessVars, infoVars, lockVars>>

SpecSpecfile == InitSpecfile /\ [][NextSpecfile]_vars

(***************************************************************************)
(* ListLockfile (lines 216-230)                                            *)
(***************************************************************************)
MaxLines == 4

Quote == "\""

VersionPrefix == <<" ", " ", "v", "e", "r", "s", "i", "o", "n", " ", Quote>>

\* Lines of a yarn.lock: block headers (bare, quoted, with two specifiers,
\* of a scoped package), version lines, and lines of neither kind.
LockLines ==
    { <<"a", "@", "1", ":">>,
      <<Quote, "a", "@", "1", Quote, ":">>,
      <<Quote, "b", "@", "1", Quote, ",", " ", Quote, "b", "@", "2", Quote, ":">>,
      <<"@", "s", "/", "a", "@", "1", ":">>,
      <<Quote, "@", "s", "/", "a", "@", "1", Quote, ":">>,
      VersionPrefix \o <<"1", Quote>>,
      VersionPrefix \o <<"2", Quote>>,
      <<>> }

LockTexts == UNION {[1..n -> LockLines] : n \in 0..MaxLines}

\* No capture: the pattern does not match.
NoMatch == <<"\n">>

\* ([^@ \n]+).+: on the text s that ends its line: the longest run of
\* characters other than "@" and " " that leaves a character and the final
\* ":" to the rest of the pattern.
CaptureName(s) ==
    LET run == SpanNot(s, {"@", " ", "\n"})
        k   == IF run < Len(s) - 2 THEN run ELSE Len(s) - 2
    IN  IF Len(s) >= 3 /\ s[Len(s)] = ":" /\ k >= 1 THEN SubSeq(s, 1, k) ELSE NoMatch

\* ^"?([^@ \n]+).+:\n on a line: the optional quote is taken when the rest
\* then matches, and left to the capture group otherwise.
HeaderName(line) ==
    IF HasPrefix(line, Quote) /\ CaptureName(Tail(line)) # NoMatch
    THEN CaptureName(Tail(line))
    ELSE CaptureName(line)

\* `  version "(.+)"$` on a line.
VersionOf(line) ==
    IF /\ Len(line) >= Len(VersionPrefix) + 2
       /\ SubSeq(line, 1, Len(VersionPrefix)) = VersionPrefix
       /\ line[Len(line)] = Quote
    THEN SubSeq(line, Len(VersionPrefix) + 1, Len(line) - 1)
    ELSE NoMatch

\* The pattern of line 222 matches at line i of the text.
MatchesAt(text, i) ==
    /\ i + 1 <= Len(text)
    /\ HeaderName(text[i]) # NoMatch
    /\ VersionOf(text[i + 1]) # NoMatch

LockfileInit ==
    /\ pc = "find"
    /\ pkgs = EmptyMap
    /\ contents \in LockTexts
    /\ pos = 1

\* Lines 224-228: the next match of FindAllStringSubmatch, leftmost from
\* the end of the one before, and its iteration of the loop.
LockfileMatch ==
    /\ pc = "find"
    /\ \E i \in pos..Len(contents) :
         /\ MatchesAt(contents, i)
         /\ \A j \in pos..(i - 1) : ~MatchesAt(contents, j)
         /\ pkgs' = MapSet(pkgs, HeaderName(contents[i]), VersionOf(contents[i + 1]))
         /\ pos' = i + 2
    /\ UNCHANGED <<pc, contents>>

\* Line 229: no further match.
LockfileReturn ==
    /\ pc = "find"
    /\ \A i \in pos..Len(contents) : ~MatchesAt(contents, i)
    /\ pc' = "done"
    /\ UNCHANGED <<pkgs, lockVars>>

InitLockfile == LockfileInit /\ GuessIdle /\ InfoIdle /\ SpecIdle

NextLockfile ==
    \/ LockfileMatch /\ UNCHANGED <<guessVars, infoVars, specVars>>
    \/ LockfileReturn /\ UNCHANGED <<guessVars, infoVars, specVars>>

SpecLockfile == InitLockfile /\ [][NextLockfile]_vars

(***************************************************************************)
(* Properties of Guess, checked under SpecGuess.                           *)
(***************************************************************************)
\* The text after the last "!" of s.
AfterLastBang(s) ==
    LET bangs == {i \in 1..Len(s) : s[i] = "!"}
        last  == CHOOSE i \in bangs : \A j \in bangs : j <= i
    IN  SubSeq(s, last + 1, Len(s))

SlashCount(s) == Cardinality({i \in 1..Len(s) : s[i] = "/"})

\* The first k "/"-delimited segments of s: its longest prefix that holds
\* fewer than k separators.
FirstSegments(s, k) ==
    LET fits == {n \in 0..Len(s) : SlashCount(SubSeq(s, 1, n)) < k}
        n    == CHOOSE x \in fits : \A y \in fits : y <= x
    IN  SubSeq(s, 1, n)

\* none, or the package name.
Outcome(r) == IF r.skip THEN <<"none">> ELSE <<"name", r.module>>

\* A match has been through the loop body and its variables are in scope.
Matched == pc = "search" /\ match # <<>>

\* C1 as stated: a captured specifier that begins with "." is skipped, and
\* so adds no name to the result, whatever else it contains.
C1_Original == (Matched /\ HasPrefix(match, ".")) => skipped

\* C1, amended: a captured specifier that begins with "." and contains no
\* "!" is skipped, and so adds no name to the result.
C1_RelativeSkipped ==
    (Matched /\ HasPrefix(match, ".") /\ ~Contains(match, "!")) => skipped

C1_Witness ==
    Matched /\ HasPrefix(match, ".") /\ Contains(match, "/") /\ ~Contains(match, "!") /\ skipped

\* The name C2 expects for the specifier s.
ExpectedName(s, recorded) ==
    IF HasPrefix(s, "@") /\ Contains(s, "/") THEN FirstSegments(s, 2)
    ELSE IF ~HasPrefix(s, "@") THEN FirstSegments(s, 1)
    ELSE recorded

\* C2 as stated: for a specifier that does not begin with ".", the name
\* recorded is its first two segments when it begins with "@" and contains
\* "/", and its first segment when it does not begin with "@".
C2_Original ==
    (Matched /\ ~HasPrefix(match, "."))
        => (~skipped /\ module \in pkgs /\ module = ExpectedName(match, module))

\* C2, amended: the same for a specifier that contains no "!".
C2_Segments ==
    (Matched /\ ~HasPrefix(match, ".") /\ ~Contains(match, "!"))
        => (~skipped /\ module \in pkgs /\ module = ExpectedName(match, module))

C2_Witness ==
    /\ Matched /\ HasPrefix(match, "@") /\ SlashCount(match) >= 2
    /\ ~skipped /\ module # match /\ module \in pkgs

\* C3: normalization is idempotent: the steps applied to a name they
\* produced give that name again.
C3_Idempotent ==
    (Matched /\ ~skipped) => Normalize(module) = [skip |-> FALSE, module |-> module]

C3_Witness == Matched /\ ~skipped /\ module # match /\ module # <<>>

\* C4: the set Guess returns holds no line of the built-in list.
C4_NoBuiltins ==
    pc = "done" => \A i \in 1..Len(output) : output[i] \notin pkgs

C4_Witness ==
    pc = "done" /\ \E i \in 1..Len(output) : output[i] \in candidates

\* C8: a specifier that contains "!" has the outcome of the text after its
\* last "!".
C8_LoaderPrefix ==
    (Matched /\ Contains(match, "!"))
        => Outcome([skip |-> skipped, module |-> module])
             = Outcome(Normalize(AfterLastBang(match)))

C8_Witness ==
    /\ Matched /\ Contains(match, "!")
    /\ ~HasPrefix(match, ".") /\ ~HasPrefix(match, "!")
    /\ HasPrefix(AfterLastBang(match), ".") /\ skipped

WellFormed(n) ==
    /\ n # <<>>
    /\ ~Contains(n, "!")
    /\ ~HasPrefix(n, ".")
    /\ Contains(n, "/") => (HasPrefix(n, "@") /\ SlashCount(n) = 1)

\* C10: every name of the set Guess returns is a well-formed package
\* identifier.
C10_WellFormed == pc = "done" => \A n \in pkgs : WellFormed(n)

(***************************************************************************)
(* Properties of Info, checked under SpecInfo.                             *)
(***************************************************************************)
\* The label parses as a version and carries no pre-release component.
Selectable(l) == NewVersion(l) # Nil /\ NewVersion(l).pre = <<>>

SegmentAt(v, i) == IF i <= Len(v.segments) THEN v.segments[i] ELSE 0

\* Version a is lower than version b: the segments in order, a missing one
\* counting as zero.
Precedes(a, b) ==
    LET n == IF Len(a.segments) < Len(b.segments) THEN Len(b.segments) ELSE Len(a.segments)
    IN  \E i \in 1..n :
          /\ SegmentAt(a, i) < SegmentAt(b, i)
          /\ \A j \in 1..(i - 1) : SegmentAt(a, j) = SegmentAt(b, j)

Greatest(l, S) == \A m \in S : ~Precedes(NewVersion(l), NewVersion(m))

LastReported == reported[Len(reported)]

\* C5 as stated: the version reported is the label of the set that compares
\* greatest among the selectable ones, and none exactly when there is none.
C5_Original ==
    pc = "done" =>
        LET S == {l \in Versions : Selectable(l)}
        IN  /\ LastReported = <<>> <=> S = {}
            /\ LastReported # <<>> => (LastReported \in S /\ Greatest(LastReported, S))

\* C5, amended: the version reported is the canonical text of a selectable
\* label that no selectable label exceeds, and none exactly when there is
\* none.
C5_LatestCanonical ==
    pc = "done" =>
        LET S == {l \in Versions : Selectable(l)}
        IN  /\ LastReported = <<>> <=> S = {}
            /\ LastReported # <<>> =>
                 \E l \in S : LastReported = String(NewVersion(l)) /\ Greatest(l, S)

C5_Witness ==
    /\ pc = "done"
    /\ \E l \in Versions, m \in Versions :
         /\ Selectable(l)
         /\ NewVersion(m) # Nil /\ NewVersion(m).pre # <<>>
         /\ Precedes(NewVersion(l), NewVersion(m))
         /\ LastReported = String(NewVersion(l))

\* C9: two runs over the same version set report the same version.
C9_OrderIndependent ==
    \A i \in 1..Len(reported), j \in 1..Len(reported) : reported[i] = reported[j]

(***************************************************************************)
(* Properties of ListSpecfile, checked under SpecSpecfile.                 *)
(***************************************************************************)
\* C7: the mapping returned has the names of both groups, the development
\* group's spec for each of its names and the runtime group's for the rest.
C7_Merge ==
    pc = "done" =>
        LET D == cfg.Dependencies
            V == cfg.DevDependencies
        IN  /\ DOMAIN pkgs = DOMAIN D \cup DOMAIN V
            /\ \A n \in DOMAIN V : pkgs[n] = V[n]
            /\ \A n \in DOMAIN D \ DOMAIN V : pkgs[n] = D[n]

C7_Witness ==
    /\ pc = "done"
    /\ \E n \in DOMAIN cfg.Dependencies \cap DOMAIN cfg.DevDependencies :
         cfg.Dependencies[n] # cfg.DevDependencies[n]
    /\ Cardinality(DOMAIN cfg.Dependencies) >= 2
    /\ Cardinality(DOMAIN cfg.DevDependencies) >= 2

(***************************************************************************)
(* Properties of ListLockfile, checked under SpecLockfile.                 *)
(***************************************************************************)
Unquoted(line) == IF HasPrefix(line, Quote) THEN Tail(line) ELSE line

\* The "@" that introduces the range of the first specifier of a header.
RangeMarks(line) == {i \in 2..Len(Unquoted(line)) : Unquoted(line)[i] = "@"}

IsHeader(line) == Len(line) >= 1 /\ line[Len(line)] = ":" /\ RangeMarks(line) # {}

\* The package name of the first specifier of a header, scope included.
FirstName(line) ==
    LET i == CHOOSE x \in RangeMarks(line) : \A y \in RangeMarks(line) : x <= y
    IN  SubSeq(Unquoted(line), 1, i - 1)

\* The mapping C6 describes: the version of the last block of each name.
Pins(text) ==
    LET blocks == {i \in 1..(Len(text) - 1) :
                     IsHeader(text[i]) /\ VersionOf(text[i + 1]) # NoMatch}
        names  == {FirstName(text[i]) : i \in blocks}
        last(n) == CHOOSE i \in blocks :
                     /\ FirstName(text[i]) = n
                     /\ \A j \in blocks : FirstName(text[j]) = n => j <= i
    IN  [n \in names |-> VersionOf(text[last(n) + 1])]

\* C6: ListLockfile returns the version of the last block of each package
\* name, scoped names included.
C6_Pins == pc = "done" => pkgs = Pins(contents)

====
